---- MODULE Spec2Model ----
(***************************************************************************)
(* The arXiv tools of kmkarakaya/mcp_tutorial and the agent loops that     *)
(* drive them:                                                             *)
(*   4_mcp_server.py                 the three tools behind FastMCP        *)
(*   2_/3_gemini_agent_with_tools    the same tools as plain functions     *)
(*   6_/9_..._gemini_agent.py        the interactive loops                 *)
(* Strings are sequences of one-character strings, so that splitting,      *)
(* substitution and suffix tests are computed as Python computes them.     *)
(***************************************************************************)
EXTENDS Integers, Sequences, FiniteSets, TLC

VARIABLES
    files,       \* ./reports: file name -> content, for the files that exist
    reportsDir,  \* whether the directory ./reports exists
    last,        \* the most recent tool call: who, what, arguments, environment, outcome
    fx,          \* the tools as functions: the arguments and the answer drawn for one call
    ncalls,      \* number of tool calls made so far
    agent,       \* the two interactive scripts: script -> its control state
    sName,       \* sanitization on its own: the proposed name
    sOnce,       \* ... sanitized once
    sTwice,      \* ... sanitized twice
    sPc          \* ... how many times it has been applied

vars == <<files, reportsDir, last, ncalls, fx, agent, sName, sOnce, sTwice, sPc>>

----------------------------------------------------------------------------
(* Bounds of the model *)

MaxCalls == 2
MaxFeedLen == 2
MaxNameLen == 3
MaxTurns == 2

----------------------------------------------------------------------------
(* Python values.  Every value is a record of one shape, whatever its type. *)

PyStr(s) == [ty |-> "str", s |-> s, i |-> 0, l |-> <<>>]
PyInt(n) == [ty |-> "int", s |-> <<>>, i |-> n, l |-> <<>>]
PyNone == [ty |-> "none", s |-> <<>>, i |-> 0, l |-> <<>>]
PyList(l) == [ty |-> "list", s |-> <<>>, i |-> 0, l |-> l]

\* bool(v)
Truthy(v) ==
    CASE v.ty = "str" -> v.s # <<>>
      [] v.ty = "int" -> v.i # 0
      [] v.ty = "list" -> v.l # <<>>
      [] OTHER -> FALSE

IsStr(v) == v.ty = "str"
IsInt(v) == v.ty = "int"

\* s.endswith(suffix)
EndsWith(s, suffix) ==
    /\ Len(s) >= Len(suffix)
    /\ SubSeq(s, Len(s) - Len(suffix) + 1, Len(s)) = suffix

\* s.split(sep)[-1] for a one-character separator: what follows the last sep
RECURSIVE LastSegment(_, _)
LastSegment(s, sep) ==
    IF s = <<>> THEN <<>>
    ELSE IF s[Len(s)] = sep THEN <<>>
    ELSE Append(LastSegment(SubSeq(s, 1, Len(s) - 1), sep), s[Len(s)])

----------------------------------------------------------------------------
(* save_md_to_file: the name and the file *)

ReservedMissingStar == {"<", ">", ":", "\"", "/", "\\", "|", "?"}

\* the character class of re.sub(r'[<>:"/\\|?*]', '-', filename)
Reserved == {"<", ">", ":", "\"", "/", "\\", "|", "?", "*"}

MdSuffix == <<".", "m", "d">>

SubReserved(s) == [k \in 1..Len(s) |-> IF s[k] \in Reserved THEN "-" ELSE s[k]]

SanitizeAlwaysAppends(s) == SubReserved(s) \o MdSuffix

\* filename = re.sub(...); if not filename.endswith('.md'): filename += '.md'
Sanitize(s) ==
    LET r == SubReserved(s) IN
    IF EndsWith(r, MdSuffix) THEN r ELSE r \o MdSuffix

\* f with key k set to v, k added when absent
Upd(f, k, v) == [x \in (DOMAIN f) \cup {k} |-> IF x = k THEN v ELSE f[x]]

WriteAppends(fs, name, text) ==
    Upd(fs, name, IF name \in DOMAIN fs THEN fs[name] \o text ELSE text)

\* open(filepath, 'w') followed by f.write(text): the file holds text alone
WriteFile(fs, name, text) == Upd(fs, name, text)

----------------------------------------------------------------------------
(* Outcome of a call: a returned value or a raised exception *)

Msg(text, exc, n) == [text |-> text, exc |-> exc, n |-> n]
NoMsg == Msg("", "", 0)

EnvelopeKeys == {"status", "data", "message"}

\* return {"status": ..., "data": ..., "message": ...}
Envelope(status, data, message) ==
    [raised |-> FALSE, exc |-> "", keys |-> EnvelopeKeys, status |-> status,
     data |-> data, message |-> message, log |-> ""]

\* return of a plain value (the plain-script tools)
Plain(value, log) ==
    [raised |-> FALSE, exc |-> "", keys |-> {}, status |-> "",
     data |-> value, message |-> NoMsg, log |-> log]

\* an exception leaving the function
Raise(exc) ==
    [raised |-> TRUE, exc |-> exc, keys |-> {}, status |-> "",
     data |-> PyNone, message |-> NoMsg, log |-> ""]

\* try: ... except Exception as e: the classes the handler catches
ExceptionClasses == {"URLError", "ParseError", "OSError", "TypeError"}

CaughtOnlyOSError(exc) == exc = "OSError"

\* except Exception as e
Caught(exc) == exc \in ExceptionClasses

\* the server tools' try/except around the whole body:
\* return {"status": "error", "data": <empty>, "message": f"An error occurred: {e}"}
CatchAll(o, emptyData) ==
    IF o.raised /\ Caught(o.exc)
    THEN Envelope("error", emptyData, Msg("An error occurred: ", o.exc, 0))
    ELSE o

----------------------------------------------------------------------------
(* The remote source: requests and answers *)

NoRequest ==
    [issued |-> FALSE, kind |-> "", arg |-> PyNone, max_results |-> PyNone,
     start |-> 0, sortBy |-> "", sortOrder |-> ""]

\* .../api/query?search_query=all:{topic}&start=0&max_results={n}
\*     &sortBy=submittedDate&sortOrder=descending
SearchRequest(topic, n) ==
    [issued |-> TRUE, kind |-> "search_query=all:", arg |-> topic, max_results |-> n,
     start |-> 0, sortBy |-> "submittedDate", sortOrder |-> "descending"]

\* .../api/query?id_list={arxiv_id}
IdRequest(arxiv_id) ==
    [issued |-> TRUE, kind |-> "id_list=", arg |-> arxiv_id, max_results |-> PyNone,
     start |-> 0, sortBy |-> "", sortOrder |-> ""]

\* the answer of urlopen(url).read() as ET.fromstring sees it
NetFail == [kind |-> "urlerror", entries |-> <<>>]
Unparsable == [kind |-> "unparsable", entries |-> <<>>]
Feed(entries) == [kind |-> "feed", entries |-> entries]
NoNet == [kind |-> "", entries |-> <<>>]

PdfType == "application/pdf"

\* next((l.get("href") for l in links if l.get("type") == "application/pdf"), None)
RECURSIVE PdfLink(_)
PdfLink(links) ==
    IF links = <<>> THEN PyNone
    ELSE IF links[1].type = PdfType THEN links[1].href
    ELSE PdfLink(Tail(links))

ArxivIdWholeUrl(full_id) == IF Truthy(full_id) THEN full_id ELSE PyNone

\* arxiv_id = full_id.split("/")[-1] if full_id else None
ArxivId(full_id) ==
    IF Truthy(full_id) THEN PyStr(LastSegment(full_id.s, "/")) ELSE PyNone

\* the dictionary appended for one entry
Paper(entry) ==
    [arxiv_id |-> ArxivId(entry.id),
     title |-> entry.title,
     authors |-> entry.authors,
     published |-> entry.published,
     pdf_link |-> PdfLink(entry.links)]

ParseEntriesReversed(entries) ==
    [k \in 1..Len(entries) |-> Paper(entries[Len(entries) + 1 - k])]

\* for entry in root.findall(".//{*}entry"): papers.append({...})
ParseEntries(entries) == [k \in 1..Len(entries) |-> Paper(entries[k])]

\* urlopen(url).read(); ET.fromstring(raw); the loop over the entries
FetchAndParse(net) ==
    IF net.kind = "urlerror" THEN Raise("URLError")
    ELSE IF net.kind = "unparsable" THEN Raise("ParseError")
    ELSE Plain(PyList(ParseEntries(net.entries)), "")

AbstractOfLastEntry(net) ==
    IF net.kind = "urlerror" THEN Raise("URLError")
    ELSE IF net.kind = "unparsable" THEN Raise("ParseError")
    ELSE IF net.entries # <<>>
         THEN Plain(net.entries[Len(net.entries)].summary, "found")
         ELSE Plain(PyNone, "missing")

\* entry = root.find(".//{*}entry"); entry.findtext("{*}summary") or no entry
FetchAbstract(net) ==
    IF net.kind = "urlerror" THEN Raise("URLError")
    ELSE IF net.kind = "unparsable" THEN Raise("ParseError")
    ELSE IF net.entries # <<>>
         THEN Plain(net.entries[1].summary, "found")
         ELSE Plain(PyNone, "missing")

----------------------------------------------------------------------------
(* The tools.  Each yields the outcome of the call, the request it issued, *)
(* and the filesystem it leaves.                                           *)

Effect(ret, req, fs, dir) == [ret |-> ret, req |-> req, files |-> fs, dir |-> dir]

\* not (not topic or not isinstance(topic, str))
ValidTopic(topic) == Truthy(topic) /\ IsStr(topic)

\* not (not isinstance(number_of_papers, int) or number_of_papers <= 0)
ValidCount(n) == IsInt(n) /\ n.i > 0

\* not (not arxiv_id or not isinstance(arxiv_id, str))
ValidArxivId(arxiv_id) == Truthy(arxiv_id) /\ IsStr(arxiv_id)

\* not (not text or not isinstance(text, str))
ValidText(text) == Truthy(text) /\ IsStr(text)

ValidFilenameAny(filename) == TRUE

\* not (not filename or not isinstance(filename, str))
ValidFilename(filename) == Truthy(filename) /\ IsStr(filename)

\* 4_mcp_server.py: fetch_arxiv_papers
ServerFetchArxivPapers(topic, n, net, fs, dir) ==
    IF ~ValidTopic(topic)
    THEN Effect(Envelope("error", PyList(<<>>), Msg("Invalid topic provided.", "", 0)),
                NoRequest, fs, dir)
    ELSE IF ~ValidCount(n)
    THEN Effect(Envelope("error", PyList(<<>>),
                         Msg("Invalid number_of_papers provided.", "", 0)),
                NoRequest, fs, dir)
    ELSE LET o == FetchAndParse(net) IN
         Effect(IF o.raised THEN CatchAll(o, PyList(<<>>))
                ELSE Envelope("success", o.data,
                              Msg("Fetched {} papers successfully.", "", Len(o.data.l))),
                SearchRequest(topic, n), fs, dir)

\* 4_mcp_server.py: get_arxiv_abstract
ServerGetArxivAbstract(arxiv_id, net, fs, dir) ==
    IF ~ValidArxivId(arxiv_id)
    THEN Effect(Envelope("error", PyNone, Msg("Invalid arXiv ID provided.", "", 0)),
                NoRequest, fs, dir)
    ELSE LET o == FetchAbstract(net) IN
         Effect(IF o.raised THEN CatchAll(o, PyNone)
                ELSE IF o.log = "found"
                THEN Envelope("success", o.data, Msg("Abstract fetched successfully.", "", 0))
                ELSE Envelope("error", PyNone, Msg("Paper not found.", "", 0)),
                IdRequest(arxiv_id), fs, dir)

\* 2_/3_gemini_agent_with_tools: fetch_arxiv_papers
PlainFetchArxivPapers(topic, n, net, fs, dir) ==
    Effect(FetchAndParse(net), SearchRequest(topic, n), fs, dir)

\* 2_/3_gemini_agent_with_tools: get_arxiv_abstract
PlainGetArxivAbstract(arxiv_id, net, fs, dir) ==
    LET o == FetchAbstract(net) IN
    Effect(IF o.raised /\ Caught(o.exc) THEN Plain(PyNone, "Error fetching abstract: ")
           ELSE IF o.raised THEN o
           ELSE Plain(o.data, ""),
           IdRequest(arxiv_id), fs, dir)

ReportsPath == <<".", "/", "r", "e", "p", "o", "r", "t", "s">>

\* os.path.join("./reports", filename)
JoinPath(dir, name) ==
    IF name # <<>> /\ name[1] = "/" THEN name ELSE dir \o <<"/">> \o name

\* the environment of one save: whether makedirs and open succeed, and whether
\* the write does; when it does not, k characters have reached the file
FsEnv(mkdirOk, openOk, writeOk, k) ==
    [mkdirOk |-> mkdirOk, openOk |-> openOk, writeOk |-> writeOk, k |-> k]
NoFs == FsEnv(TRUE, TRUE, TRUE, 0)

Prefix(s, k) == SubSeq(s, 1, IF k < Len(s) THEN k ELSE Len(s))

\* with open(filepath, 'w', encoding='utf-8') as f: f.write(text)
\* yields the outcome and the files left
OpenAndWrite(text, path, env, fs) ==
    IF ~env.openOk THEN [o |-> Raise("OSError"), files |-> fs]
    ELSE IF ~IsStr(text)
    THEN [o |-> Raise("TypeError"), files |-> WriteFile(fs, path, <<>>)]
    ELSE IF ~env.writeOk
    THEN [o |-> Raise("OSError"), files |-> WriteFile(fs, path, Prefix(text.s, env.k))]
    ELSE [o |-> Plain(PyNone, ""), files |-> WriteFile(fs, path, text.s)]

\* 4_mcp_server.py: save_md_to_file
ServerSaveMdToFile(text, filename, env, fs, dir) ==
    IF ~ValidText(text)
    THEN Effect(Envelope("error", PyNone, Msg("Invalid text provided.", "", 0)),
                NoRequest, fs, dir)
    ELSE IF ~ValidFilename(filename)
    THEN Effect(Envelope("error", PyNone, Msg("Invalid filename provided.", "", 0)),
                NoRequest, fs, dir)
    ELSE IF ~dir /\ ~env.mkdirOk
    THEN Effect(CatchAll(Raise("OSError"), PyNone), NoRequest, fs, dir)
    ELSE LET filepath == JoinPath(ReportsPath, Sanitize(filename.s))
             w == OpenAndWrite(text, filepath, env, fs)
         IN  Effect(IF w.o.raised THEN CatchAll(w.o, PyNone)
                    ELSE Envelope("success", PyStr(filepath),
                                  Msg("File saved successfully.", "", 0)),
                    NoRequest, w.files, TRUE)

\* 3_gemini_agent_with_tools_v2.py: save_md_to_file
PlainSaveMdToFile(text, filename, env, fs, dir) ==
    IF ~dir /\ ~env.mkdirOk
    THEN Effect(Raise("OSError"), NoRequest, fs, dir)
    ELSE IF ~IsStr(filename)
    THEN Effect(Raise("TypeError"), NoRequest, fs, TRUE)
    ELSE LET filepath == JoinPath(ReportsPath, Sanitize(filename.s))
             w == OpenAndWrite(text, filepath, env, fs)
         IN  Effect(IF w.o.raised /\ Caught(w.o.exc)
                    THEN Plain(PyNone, "Error saving file: ")
                    ELSE IF w.o.raised THEN w.o
                    ELSE Plain(PyNone, "File saved successfully: "),
                    NoRequest, w.files, TRUE)

----------------------------------------------------------------------------
(* Inputs and the answers of the remote source *)

Topics == {PyStr(<<>>), PyStr(<<"M", "C", "P">>), PyInt(7)}
Counts == {PyInt(-1), PyInt(0), PyInt(1), PyInt(3), PyStr(<<"3">>)}
ArxivIds == {PyStr(<<>>), PyStr(<<"2", "3", "0", "1", ".", "1">>), PyNone}
Texts == {PyStr(<<>>), PyStr(<<"a", "b">>), PyStr(<<"c">>), PyNone}
AllReserved == <<"<", ">", ":", "\"", "/", "\\", "|", "?", "*">>
Filenames ==
    {PyStr(<<>>), PyStr(<<"a", ".", "m", "d">>), PyStr(<<"a">>),
     PyStr(<<"/", "a">>), PyStr(AllReserved), PyNone}

Link(type, href) == [type |-> type, href |-> href]

Date(d) == PyStr(<<"2", "0", "2", "5", "-", "0", "1", "-", "0", d>>)

\* entries of a feed: what findtext / findall / get yield for each
Entry1 ==
    [id |-> PyStr(<<"x", "/", "a", "b", "s", "/", "2", "3", "0", "1", ".", "1", "2", "3", "4", "5">>),
     title |-> PyStr(<<"T", "1">>), published |-> Date("3"),
     authors |-> <<PyStr(<<"A">>), PyStr(<<"B">>)>>,
     links |-> <<Link("text/html", PyStr(<<"h">>)), Link(PdfType, PyStr(<<"p", "1">>))>>,
     summary |-> PyStr(<<"S", "1">>)]
Entry2 ==
    [id |-> PyStr(<<"x", "/", "a", "b", "s", "/", "2", "3", "0", "1", ".", "2">>),
     title |-> PyStr(<<"T", "2">>), published |-> Date("2"),
     authors |-> <<PyStr(<<"C">>)>>,
     links |-> <<Link("text/html", PyStr(<<"h">>))>>,
     summary |-> PyNone]
Entry3 ==
    [id |-> PyNone,
     title |-> PyNone, published |-> Date("1"),
     authors |-> <<>>,
     links |-> <<Link(PdfType, PyNone)>>,
     summary |-> PyStr(<<>>)]
Entry4 ==
    [id |-> PyStr(<<"x", "/", "2", "/">>),
     title |-> PyStr(<<>>), published |-> Date("3"),
     authors |-> <<PyNone>>,
     links |-> <<>>,
     summary |-> PyStr(<<"S", "4">>)]
Entries == {Entry1, Entry2, Entry3, Entry4}

SeqsUpTo(S, n) == UNION {[1..k -> S] : k \in 0..n}

\* every answer: a failed request, a body that does not parse, a feed
NetOutcomes == {NetFail, Unparsable} \cup {Feed(es) : es \in SeqsUpTo(Entries, MaxFeedLen)}

\* the answers the running server is given
ServedOutcomes ==
    {NetFail, Unparsable, Feed(<<>>), Feed(<<Entry1>>), Feed(<<Entry2, Entry1, Entry3>>)}

FsEnvs(text) ==
    {FsEnv(TRUE, TRUE, TRUE, 0), FsEnv(FALSE, TRUE, TRUE, 0), FsEnv(TRUE, FALSE, TRUE, 0)}
    \cup {FsEnv(TRUE, TRUE, FALSE, k) : k \in 0..Len(text.s)}

----------------------------------------------------------------------------
(* State *)

\* the file a save aims at, as it was before the call
Before(existed, content) == [existed |-> existed, content |-> content]
NoBefore == Before(FALSE, <<>>)

NoCall ==
    [variant |-> "", tool |-> "", a1 |-> PyNone, a2 |-> PyNone, net |-> NoNet,
     fs |-> NoFs, ret |-> Plain(PyNone, ""), req |-> NoRequest, before |-> NoBefore]

Call(variant, tool, a1, a2, net, fs, e, before) ==
    [variant |-> variant, tool |-> tool, a1 |-> a1, a2 |-> a2,
     net |-> IF e.req.issued THEN net ELSE NoNet, fs |-> fs, ret |-> e.ret,
     req |-> e.req, before |-> before]

NoFiles == [x \in {} |-> <<>>]

Fixture(tool, a1, a2, net) == [tool |-> tool, a1 |-> a1, a2 |-> a2, net |-> net]
NoFixture == Fixture("", PyNone, PyNone, NoNet)

\* one call of a network tool: its arguments and the answer it will get
Fixtures ==
    {Fixture("fetch_arxiv_papers", topic, n, net) :
        topic \in Topics, n \in Counts, net \in NetOutcomes}
    \cup {Fixture("get_arxiv_abstract", arxiv_id, PyNone, net) :
        arxiv_id \in ArxivIds, net \in NetOutcomes}

----------------------------------------------------------------------------
(* The interactive loops of 6_mcp_gemini_agent.py and 9_mcp_docker_gemini_agent.py *)

Scripts == {"6", "9"}

\* str.lower() on the characters the inputs use
LowerChar(c) ==
    CASE c = "E" -> "e" [] c = "X" -> "x" [] c = "I" -> "i" [] c = "T" -> "t"
      [] c = "H" -> "h" [] OTHER -> c
Lower(s) == [k \in 1..Len(s) |-> LowerChar(s[k])]

ExitWord == <<"e", "x", "i", "t">>

\* what input("You: ") returns
Lines == {ExitWord, <<"E", "x", "I", "T">>, <<"e", "x", "i", "t", " ">>, <<"h", "i">>}

\* pc: start, connected, input, send, done (main returned), crashed (main raised)
\* session: the MCP client session, "closed" or "open"
\* turns: messages answered; errors: errors reported to the user
\* line: the line being processed; sentOn: the session's state at the latest send
\* ended: why the loop ended
AgentState(pc, session, turns, errors, line, sentOn, ended) ==
    [pc |-> pc, session |-> session, turns |-> turns, errors |-> errors,
     line |-> line, sentOn |-> sentOn, ended |-> ended]

AgentStart == [s \in Scripts |-> AgentState("start", "closed", 0, 0, <<>>, "", "")]

Step(s, a) ==
    /\ agent' = [agent EXCEPT ![s] = a]
    /\ UNCHANGED <<files, reportsDir, last, ncalls, fx, sName, sOnce, sTwice, sPc>>

\* 6: create_gemini_agent enters "async with mcp_client"
Connect6 ==
    /\ agent["6"].pc = "start"
    /\ \E ok \in BOOLEAN :
        Step("6", IF ok
                  THEN [agent["6"] EXCEPT !.pc = "connected", !.session = "open"]
                  ELSE [agent["6"] EXCEPT !.pc = "crashed", !.ended = "exception"])

\* 6: list_tools, chats.create, return chat: the "async with" block is left
CreateAgent6 ==
    /\ agent["6"].pc = "connected"
    /\ \E ok \in BOOLEAN :
        Step("6", IF ok
                  THEN [agent["6"] EXCEPT !.pc = "input", !.session = "closed"]
                  ELSE [agent["6"] EXCEPT !.pc = "crashed", !.session = "closed",
                                          !.ended = "exception"])

\* 6: user_input = input("You: "); if user_input.lower() == "exit": break
Input6 ==
    /\ agent["6"].pc = "input"
    /\ \/ \E line \in Lines :
            /\ Lower(line) = ExitWord \/ agent["6"].turns < MaxTurns
            /\ Step("6", IF Lower(line) = ExitWord
                         THEN [agent["6"] EXCEPT !.pc = "done", !.line = line,
                                                 !.ended = "exit"]
                         ELSE [agent["6"] EXCEPT !.pc = "send", !.line = line])
       \/ Step("6", [agent["6"] EXCEPT !.pc = "crashed", !.ended = "exception"])

\* 6: a failing send_message: no handler, the exception leaves main
SendFailed6(a) ==
    [a EXCEPT !.pc = "crashed", !.sentOn = a.session, !.ended = "exception"]

\* 6: response = await chat.send_message(user_input); print(...)
Send6 ==
    /\ agent["6"].pc = "send"
    /\ \E ok \in BOOLEAN :
        Step("6", IF ok
                  THEN [agent["6"] EXCEPT !.pc = "input", !.turns = agent["6"].turns + 1,
                                          !.sentOn = agent["6"].session]
                  ELSE SendFailed6(agent["6"]))

\* 9: main enters "async with mcp_client"; a failure reaches the outer except
Connect9 ==
    /\ agent["9"].pc = "start"
    /\ \E ok \in BOOLEAN :
        Step("9", IF ok
                  THEN [agent["9"] EXCEPT !.pc = "connected", !.session = "open"]
                  ELSE [agent["9"] EXCEPT !.pc = "done", !.errors = 1,
                                          !.ended = "exception"])

\* 9: create_gemini_agent: list_tools, chats.create; it re-raises what fails
CreateAgent9 ==
    /\ agent["9"].pc = "connected"
    /\ \E ok \in BOOLEAN :
        Step("9", IF ok
                  THEN [agent["9"] EXCEPT !.pc = "input"]
                  ELSE [agent["9"] EXCEPT !.pc = "done", !.session = "closed",
                                          !.errors = 2, !.ended = "exception"])

\* 9: user_input = input("You: "); if user_input.lower() == "exit": break
Input9 ==
    /\ agent["9"].pc = "input"
    /\ \/ \E line \in Lines :
            /\ Lower(line) = ExitWord \/ agent["9"].turns + agent["9"].errors < MaxTurns
            /\ Step("9", IF Lower(line) = ExitWord
                         THEN [agent["9"] EXCEPT !.pc = "done", !.line = line,
                                                 !.session = "closed", !.ended = "exit"]
                         ELSE [agent["9"] EXCEPT !.pc = "send", !.line = line])
       \/ Step("9", [agent["9"] EXCEPT !.pc = "done", !.session = "closed",
                                       !.errors = agent["9"].errors + 1,
                                       !.ended = "exception"])

\* 9: except Exception as e: print(f"Sorry, I encountered an error ...")
SendFailed9(a) ==
    [a EXCEPT !.pc = "input", !.errors = a.errors + 1, !.sentOn = a.session]

\* 9: try: response = await chat.send_message(user_input); print(...)
Send9 ==
    /\ agent["9"].pc = "send"
    /\ \E ok \in BOOLEAN :
        Step("9", IF ok
                  THEN [agent["9"] EXCEPT !.pc = "input", !.turns = agent["9"].turns + 1,
                                          !.sentOn = agent["9"].session]
                  ELSE SendFailed9(agent["9"]))

----------------------------------------------------------------------------
(* The name sanitization of save_md_to_file, applied to a name and to its result *)

NameChars == {":", "*", ".", "m", "d", "a", "-"}

MyReport == <<"M", "y", ":", " ", "R", "e", "p", "o", "r", "t">>

ProposedNames == SeqsUpTo(NameChars, MaxNameLen) \cup {MyReport}

SanitizeOnce ==
    /\ sPc = 0
    /\ sOnce' = Sanitize(sName)
    /\ sPc' = 1
    /\ UNCHANGED <<files, reportsDir, last, ncalls, fx, agent, sName, sTwice>>

SanitizeAgain ==
    /\ sPc = 1
    /\ sTwice' = Sanitize(sOnce)
    /\ sPc' = 2
    /\ UNCHANGED <<files, reportsDir, last, ncalls, fx, agent, sName, sOnce>>

----------------------------------------------------------------------------
(* The tools against one filesystem: the server's three tools and the plain  *)
(* script's save.  The plain scripts' network tools keep no state and touch  *)
(* no file; they are exercised in FetchSpec below.                           *)

SanIdle ==
    /\ sName = <<>>
    /\ sOnce = <<>>
    /\ sTwice = <<>>
    /\ sPc = 0

ToolInit ==
    /\ files = NoFiles
    /\ reportsDir = FALSE
    /\ last = NoCall
    /\ ncalls = 0

\* the call is made: its outcome is recorded and its effects applied
Apply(variant, tool, a1, a2, net, fs, e, before) ==
    /\ last' = Call(variant, tool, a1, a2, net, fs, e, before)
    /\ files' = e.files
    /\ reportsDir' = e.dir
    /\ UNCHANGED <<fx, agent, sName, sOnce, sTwice, sPc>>

\* the path a save of this name aims at
Target(filename) ==
    IF IsStr(filename) THEN JoinPath(ReportsPath, Sanitize(filename.s)) ELSE <<>>

BeforeSave(filename) ==
    IF Target(filename) \in DOMAIN files
    THEN Before(TRUE, files[Target(filename)])
    ELSE NoBefore

ServerFetch ==
    /\ ncalls < MaxCalls
    /\ ncalls' = ncalls + 1
    /\ \E topic \in Topics, n \in Counts, net \in ServedOutcomes :
        Apply("server", "fetch_arxiv_papers", topic, n, net, NoFs,
              ServerFetchArxivPapers(topic, n, net, files, reportsDir), NoBefore)

ServerAbstract ==
    /\ ncalls < MaxCalls
    /\ ncalls' = ncalls + 1
    /\ \E arxiv_id \in ArxivIds, net \in ServedOutcomes :
        Apply("server", "get_arxiv_abstract", arxiv_id, PyNone, net, NoFs,
              ServerGetArxivAbstract(arxiv_id, net, files, reportsDir), NoBefore)

ServerSave ==
    /\ ncalls < MaxCalls
    /\ ncalls' = ncalls + 1
    /\ \E text \in Texts, filename \in Filenames :
        \E env \in FsEnvs(text) :
            Apply("server", "save_md_to_file", text, filename, NoNet, env,
                  ServerSaveMdToFile(text, filename, env, files, reportsDir),
                  BeforeSave(filename))

PlainSave ==
    /\ ncalls < MaxCalls
    /\ ncalls' = ncalls + 1
    /\ \E text \in Texts, filename \in Filenames :
        \E env \in FsEnvs(text) :
            Apply("plain", "save_md_to_file", text, filename, NoNet, env,
                  PlainSaveMdToFile(text, filename, env, files, reportsDir),
                  BeforeSave(filename))

Init ==
    /\ ToolInit
    /\ fx = NoFixture
    /\ agent = AgentStart
    /\ SanIdle

Next ==
    \/ ServerFetch
    \/ ServerAbstract
    \/ ServerSave
    \/ PlainSave

Spec == Init /\ [][Next]_vars

----------------------------------------------------------------------------
(* The network tools as functions of their arguments and of the answer *)

FetchInit ==
    /\ ToolInit
    /\ fx \in Fixtures
    /\ agent = AgentStart
    /\ SanIdle

ServerFetchOf ==
    /\ fx.tool = "fetch_arxiv_papers"
    /\ UNCHANGED ncalls
    /\ Apply("server", fx.tool, fx.a1, fx.a2, fx.net, NoFs,
             ServerFetchArxivPapers(fx.a1, fx.a2, fx.net, files, reportsDir), NoBefore)

PlainFetchOf ==
    /\ fx.tool = "fetch_arxiv_papers"
    /\ UNCHANGED ncalls
    /\ Apply("plain", fx.tool, fx.a1, fx.a2, fx.net, NoFs,
             PlainFetchArxivPapers(fx.a1, fx.a2, fx.net, files, reportsDir), NoBefore)

ServerAbstractOf ==
    /\ fx.tool = "get_arxiv_abstract"
    /\ UNCHANGED ncalls
    /\ Apply("server", fx.tool, fx.a1, fx.a2, fx.net, NoFs,
             ServerGetArxivAbstract(fx.a1, fx.net, files, reportsDir), NoBefore)

PlainAbstractOf ==
    /\ fx.tool = "get_arxiv_abstract"
    /\ UNCHANGED ncalls
    /\ Apply("plain", fx.tool, fx.a1, fx.a2, fx.net, NoFs,
             PlainGetArxivAbstract(fx.a1, fx.net, files, reportsDir), NoBefore)

FetchNext ==
    \/ ServerFetchOf
    \/ PlainFetchOf
    \/ ServerAbstractOf
    \/ PlainAbstractOf

FetchSpec == FetchInit /\ [][FetchNext]_vars

----------------------------------------------------------------------------
(* The two scripts, each at its own pace *)

LoopInit ==
    /\ ToolInit
    /\ fx = NoFixture
    /\ agent = AgentStart
    /\ SanIdle

LoopNext ==
    \/ Connect6
    \/ CreateAgent6
    \/ Input6
    \/ Send6
    \/ Connect9
    \/ CreateAgent9
    \/ Input9
    \/ Send9

LoopSpec == LoopInit /\ [][LoopNext]_vars

----------------------------------------------------------------------------
(* Sanitization of every short name *)

SanInit ==
    /\ ToolInit
    /\ fx = NoFixture
    /\ agent = AgentStart
    /\ sName \in ProposedNames
    /\ sOnce = <<>>
    /\ sTwice = <<>>
    /\ sPc = 0

SanNext ==
    \/ SanitizeOnce
    \/ SanitizeAgain

SanSpec == SanInit /\ [][SanNext]_vars

----------------------------------------------------------------------------
(* Properties *)

IsServer(c, tool) == c.variant = "server" /\ c.tool = tool
IsPlain(c, tool) == c.variant = "plain" /\ c.tool = tool
EmptyStr == PyStr(<<>>)

\* the inputs C1 names: empty topic, count <= 0, empty identifier, empty filename
InvalidServerCall(c) ==
    \/ IsServer(c, "fetch_arxiv_papers") /\ (c.a1 = EmptyStr \/ (IsInt(c.a2) /\ c.a2.i <= 0))
    \/ IsServer(c, "get_arxiv_abstract") /\ c.a1 = EmptyStr
    \/ IsServer(c, "save_md_to_file") /\ c.a2 = EmptyStr

\* C1: a server tool called with an empty topic, a count <= 0, an empty identifier
\* or an empty filename returns an envelope with status 'error', issues no network
\* request, and leaves the filesystem as it was (no ./reports, no file written).
C1_InvalidInputRejectedWithoutEffect ==
    [][InvalidServerCall(last') =>
          /\ ~last'.ret.raised
          /\ last'.ret.keys = EnvelopeKeys
          /\ last'.ret.status = "error"
          /\ ~last'.req.issued
          /\ files' = files
          /\ reportsDir' = reportsDir]_vars

C1_Witness ==
    /\ IsServer(last, "save_md_to_file")
    /\ last.a1 = PyStr(<<"a", "b">>)
    /\ last.a2 = EmptyStr
    /\ last.fs.mkdirOk
    /\ last.ret.status = "error"
    /\ ~reportsDir

\* C2: whatever the input and whatever the network or the filesystem does, each
\* of the three server tools returns an envelope with the keys status, data and
\* message and a status of success or error; no exception leaves the tool.
C2_ServerToolsAlwaysReturnEnvelope ==
    last.variant = "server" =>
        /\ ~last.ret.raised
        /\ last.ret.keys = EnvelopeKeys
        /\ last.ret.status \in {"success", "error"}

C2_Witness ==
    /\ IsServer(last, "fetch_arxiv_papers")
    /\ last.net = Unparsable
    /\ last.ret.status = "error"
    /\ last.ret.message.exc = "ParseError"

\* C3: in both agent scripts, a send_message that raises never ends the loop: the
\* error is reported and the script is back at waiting for the next input.
C3_TurnErrorNeverEndsLoop ==
    [][\A s \in Scripts :
          agent[s].pc = "send" /\ agent'[s] # agent[s] =>
              /\ agent'[s].pc = "input"
              /\ agent'[s].turns + agent'[s].errors = agent[s].turns + agent[s].errors + 1]_vars

\* Python's order of the characters publication dates are written with
DateChars == <<"-", "0", "1", "2", "3", "4", "5", "6", "7", "8", "9">>
Code(c) == CHOOSE k \in 1..Len(DateChars) : DateChars[k] = c

\* a <= b as Python compares strings
RECURSIVE LexLeq(_, _)
LexLeq(a, b) ==
    IF a = <<>> THEN TRUE
    ELSE IF b = <<>> THEN FALSE
    ELSE IF a[1] = b[1] THEN LexLeq(Tail(a), Tail(b))
    ELSE Code(a[1]) < Code(b[1])

\* non-increasing publication date along a sequence of records or entries
NonIncreasing(rs) ==
    \A k \in 1..(Len(rs) - 1) : LexLeq(rs[k + 1].published.s, rs[k].published.s)

\* a fetch with a count n > 0 that succeeded
FetchSucceeded(c) ==
    /\ c.tool = "fetch_arxiv_papers"
    /\ IsInt(c.a2) /\ c.a2.i > 0
    /\ \/ c.variant = "server" /\ c.ret.status = "success"
       \/ c.variant = "plain" /\ ~c.ret.raised

\* C4 as claimed: for any feed the remote source answers with, a successful fetch
\* with count n > 0 returns at most n records in non-increasing publication date.
C4_AtMostNSortedForAnyFeed ==
    FetchSucceeded(last) =>
        /\ Len(last.ret.data.l) <= last.a2.i
        /\ NonIncreasing(last.ret.data.l)

\* C4 as amended: a successful fetch with count n > 0 asks for at most n results in
\* descending submission date and returns one record per entry of the answered
\* feed; when that feed holds at most n entries in non-increasing publication
\* date, so does the result.
C4_AtMostNSortedWhenFeedIs ==
    FetchSucceeded(last) =>
        /\ last.req.max_results = last.a2
        /\ last.req.sortBy = "submittedDate" /\ last.req.sortOrder = "descending"
        /\ Len(last.ret.data.l) = Len(last.net.entries)
        /\ (Len(last.net.entries) <= last.a2.i /\ NonIncreasing(last.net.entries)) =>
              /\ Len(last.ret.data.l) <= last.a2.i
              /\ NonIncreasing(last.ret.data.l)

C4_Witness ==
    /\ FetchSucceeded(last)
    /\ last.a2.i = 3
    /\ last.net.entries = <<Entry1, Entry2>>
    /\ Len(last.ret.data.l) = 2
    /\ last.ret.data.l[1].published # last.ret.data.l[2].published

\* a save that reported success
IsSave(c) == c.tool = "save_md_to_file"
SaveSucceeded(c) ==
    /\ IsSave(c)
    /\ ~c.ret.raised
    /\ \/ c.variant = "server" /\ c.ret.status = "success"
       \/ c.variant = "plain" /\ c.ret.log = "File saved successfully: "

\* C5 as claimed: the file a save aims at holds exactly the text of the most
\* recent save call whose proposed name sanitizes to its name.
C5_ContentIsLatestSaveText ==
    (IsSave(last) /\ IsStr(last.a1) /\ IsStr(last.a2)) =>
        /\ Target(last.a2) \in DOMAIN files
        /\ files[Target(last.a2)] = last.a1.s

\* C5 as amended: when a save call succeeds, the file ./reports/<sanitized name>
\* holds exactly that call's text, whatever it held before (replaced, never
\* appended to), and a file's content changes only in a save call aimed at it.
C5_ContentIsLatestSuccessfulSaveText ==
    [][/\ SaveSucceeded(last') =>
             /\ Target(last'.a2) \in DOMAIN files'
             /\ files'[Target(last'.a2)] = last'.a1.s
       /\ \A p \in DOMAIN files :
             /\ p \in DOMAIN files'
             /\ files'[p] # files[p] => (IsSave(last') /\ Target(last'.a2) = p)]_vars

C5_Witness ==
    /\ SaveSucceeded(last)
    /\ last.before.existed
    /\ last.before.content = <<"a", "b">>
    /\ last.a1 = PyStr(<<"c">>)
    /\ files[Target(last.a2)] = <<"c">>

\* C6: sanitization is idempotent, sanitize(sanitize(s)) = sanitize(s); a name that
\* ends in '.md' and holds no reserved character is returned unchanged; and
\* 'My: Report' becomes 'My- Report.md'.
C6_SanitizeIdempotent ==
    /\ sPc = 2 => sTwice = sOnce
    /\ (sPc >= 1 /\ EndsWith(sName, MdSuffix)
          /\ \A k \in 1..Len(sName) : sName[k] \notin Reserved) => sOnce = sName
    /\ (sPc >= 1 /\ sName = MyReport) =>
          sOnce = <<"M", "y", "-", " ", "R", "e", "p", "o", "r", "t", ".", "m", "d">>

C6_Witness ==
    /\ sPc = 2
    /\ sName = <<":", "a">>
    /\ sOnce = <<"-", "a", ".", "m", "d">>
    /\ sTwice = sOnce

\* the name of a path under ./reports, or <<>> for a path that is not under it
NameUnderReports(p) ==
    IF Len(p) > Len(ReportsPath) + 1
       /\ SubSeq(p, 1, Len(ReportsPath) + 1) = ReportsPath \o <<"/">>
    THEN SubSeq(p, Len(ReportsPath) + 2, Len(p))
    ELSE <<>>

\* C7: every file the program has written lies in ./reports under a name that
\* holds none of the characters < > : " / \ | ? * and ends in '.md'.
C7_WrittenNamesAreSanitized ==
    \A p \in DOMAIN files :
        LET name == NameUnderReports(p) IN
        /\ name # <<>>
        /\ \A k \in 1..Len(name) :
              name[k] \notin {"<", ">", ":", "\"", "/", "\\", "|", "?", "*"}
        /\ EndsWith(name, <<".", "m", "d">>)

C7_Witness ==
    /\ SaveSucceeded(last)
    /\ last.a2 = PyStr(AllReserved)
    /\ Target(last.a2) \in DOMAIN files
    /\ \E p \in DOMAIN files : p # Target(last.a2)

\* seg is what follows the last '/' of url (all of url when it holds none)
IsFinalSegment(seg, url) ==
    \E k \in 0..Len(url) :
        /\ seg = SubSeq(url, k + 1, Len(url))
        /\ \A j \in 1..Len(seg) : seg[j] # "/"
        /\ k = 0 \/ url[k] = "/"

\* C8: a successful fetch returns exactly one record per feed entry, in the
\* feed's order, and the record of an entry that has an id URL carries as its
\* identifier the final '/'-separated segment of that URL.
C8_IdentifierIsFinalSegment ==
    (last.tool = "fetch_arxiv_papers" /\ last.net.kind = "feed" /\ ~last.ret.raised
       /\ last.ret.status # "error") =>
        /\ Len(last.ret.data.l) = Len(last.net.entries)
        /\ \A k \in 1..Len(last.net.entries) :
              LET entry == last.net.entries[k]
                  paper == last.ret.data.l[k]
              IN  /\ paper.title = entry.title
                  /\ paper.published = entry.published
                  /\ paper.authors = entry.authors
                  /\ Truthy(entry.id) =>
                        /\ IsStr(paper.arxiv_id)
                        /\ IsFinalSegment(paper.arxiv_id.s, entry.id.s)

C8_Witness ==
    /\ IsServer(last, "fetch_arxiv_papers")
    /\ last.ret.status = "success"
    /\ last.net.entries = <<Entry2, Entry1>>
    /\ last.ret.data.l[2].arxiv_id = PyStr(<<"2", "3", "0", "1", ".", "1", "2", "3", "4", "5">>)

\* C9: for a non-empty identifier and an answered feed, get_arxiv_abstract returns
\* the abstract of the feed's first entry when there is one, and otherwise 'not
\* found': the server an error envelope saying 'Paper not found.', the plain
\* script None.
C9_AbstractOfFirstEntryOrNotFound ==
    (last.tool = "get_arxiv_abstract" /\ IsStr(last.a1) /\ last.a1.s # <<>>
       /\ last.net.kind = "feed") =>
        /\ ~last.ret.raised
        /\ last.net.entries # <<>> =>
              /\ last.ret.data = last.net.entries[1].summary
              /\ last.variant = "server" => last.ret.status = "success"
        /\ last.net.entries = <<>> =>
              /\ last.ret.data = PyNone
              /\ last.variant = "server" =>
                    /\ last.ret.status = "error"
                    /\ last.ret.message.text = "Paper not found."

C9_Witness ==
    /\ IsServer(last, "get_arxiv_abstract")
    /\ last.net.entries = <<Entry1, Entry4>>
    /\ last.ret.status = "success"
    /\ last.ret.data = PyStr(<<"S", "1">>)

\* C10: in the plain script, save_md_to_file called with a text and a name returns
\* normally whatever fails, in creating ./reports or in opening or writing the
\* file, and a failure is logged.
C10_PlainSaveNeverRaises ==
    (IsPlain(last, "save_md_to_file") /\ IsStr(last.a1) /\ IsStr(last.a2)) =>
        /\ ~last.ret.raised
        /\ last.ret.log \in {"File saved successfully: ", "Error saving file: "}

\* the inputs C11 names, given to a plain-script tool
InvalidPlainCall(c) ==
    \/ IsPlain(c, "fetch_arxiv_papers")
         /\ (~IsStr(c.a1) \/ c.a1 = EmptyStr \/ (IsInt(c.a2) /\ c.a2.i <= 0))
    \/ IsPlain(c, "get_arxiv_abstract") /\ c.a1 = EmptyStr

\* C11: in the plain scripts, fetch_arxiv_papers with a non-string or empty topic
\* or a count <= 0, and get_arxiv_abstract with an empty identifier, are rejected
\* before any network request, with an outcome that is not the outcome of a
\* network or parse failure.
C11_PlainInvalidInputRejectedBeforeRequest ==
    InvalidPlainCall(last) =>
        /\ ~last.req.issued
        /\ last.ret.raised => last.ret.exc \notin {"URLError", "ParseError"}
        /\ last.ret.log # "Error fetching abstract: "

\* C12: in both agent scripts the MCP client session is open whenever a user
\* message is forwarded with chat.send_message: it is opened before the first
\* turn and closed only after the loop has ended.
C12_SessionOpenAtEverySend ==
    \A s \in Scripts :
        /\ agent[s].pc = "send" => agent[s].session = "open"
        /\ agent[s].sentOn # "closed"

\* what an empty data field is for each server tool
EmptyData(tool) == IF tool = "fetch_arxiv_papers" THEN PyList(<<>>) ELSE PyNone

\* C13: every envelope of a server tool is consistent: with status 'success' the
\* data field holds the payload (a list for fetch_arxiv_papers, a string for the
\* other two tools) and is never None; with status 'error' it is empty ([] for
\* fetch_arxiv_papers, None for the other two).
C13_EnvelopeStatusMatchesData ==
    last.variant = "server" =>
        /\ last.ret.status = "success" =>
              /\ last.ret.data # PyNone
              /\ last.ret.data.ty =
                    (IF last.tool = "fetch_arxiv_papers" THEN "list" ELSE "str")
        /\ last.ret.status = "error" => last.ret.data = EmptyData(last.tool)

====
